---------------------------- MODULE Spec2Model ----------------------------
(* A model of app.py (NanoPerplexityAI): the concurrent page collector     *)
(* google_parse_webpages / fetch_webpage with its trace-function watchdog, *)
(* and the citation reconciliation renumber_citations /                    *)
(* generate_citation_links / save_markdown.                                *)
(*                                                                         *)
(* Texts are sequences of tokens.  Every character that the citation       *)
(* pattern can look at ("[", "]", "(", ")", a digit) is a token of its     *)
(* own; a URL, a heading or a run of other characters is one token.        *)
EXTENDS Integers, Sequences, FiniteSets, TLC

\* ------------------------------------------------------------------------
\* Default configuration (app.py lines 15-19)
NUM_SEARCH == 20
SEARCH_TIME_LIMIT == 15
TOTAL_TIMEOUT == 39
MAX_CONTENT == 2000

\* ------------------------------------------------------------------------
\* Strings, integers and the two regular expressions of renumber_citations

DigitChars == <<"0", "1", "2", "3", "4", "5", "6", "7", "8", "9">>

IsDigit(c) == \E d \in 1..10 : DigitChars[d] = c

DigitVal(c) == (CHOOSE d \in 1..10 : DigitChars[d] = c) - 1

\* int(ds) for a non-empty string of decimal digits: leading zeros vanish
RECURSIVE StrToInt(_)
StrToInt(ds) ==
    IF ds = <<>> THEN 0
    ELSE StrToInt(SubSeq(ds, 1, Len(ds) - 1)) * 10 + DigitVal(ds[Len(ds)])

\* str(n), the f-string form {n} of a non-negative int: no leading zeros
RECURSIVE IntToStr(_)
IntToStr(n) ==
    IF n < 10 THEN <<DigitChars[n + 1]>>
    ELSE IntToStr(n \div 10) \o <<DigitChars[(n % 10) + 1]>>

\* the position after an optional character c at position i  ( \(? and \)? )
OptAt(s, i, c) == IF i <= Len(s) /\ s[i] = c THEN i + 1 ELSE i

\* the position after the longest run of digits starting at i  ( \d+ )
RECURSIVE DigitsEnd(_, _)
DigitsEnd(s, i) ==
    IF i <= Len(s) /\ IsDigit(s[i]) THEN DigitsEnd(s, i + 1) ELSE i

\* the position after the literal lit starting at i, or 0
LitEnd(s, i, lit) ==
    IF i + Len(lit) - 1 <= Len(s) /\ SubSeq(s, i, i + Len(lit) - 1) = lit
    THEN i + Len(lit) ELSE 0

NoMatch == [ok |-> FALSE, end |-> 0, digits |-> <<>>]

\* a match of  \[\(?(\d+)\)?\]  starting exactly at position i
ScanMatchAt(s, i) ==
    IF ~(i <= Len(s) /\ s[i] = "[") THEN NoMatch
    ELSE LET j == OptAt(s, i + 1, "(")
             k == DigitsEnd(s, j)
             m == OptAt(s, k, ")")
         IN  IF k > j /\ m <= Len(s) /\ s[m] = "]"
             THEN [ok |-> TRUE, end |-> m + 1, digits |-> SubSeq(s, j, k - 1)]
             ELSE NoMatch

\* a match of  \[\(?{old}\)?\]  starting exactly at position i, old = lit
SubMatchAt(s, i, lit) ==
    IF ~(i <= Len(s) /\ s[i] = "[") THEN NoMatch
    ELSE LET j == OptAt(s, i + 1, "(")
             k == LitEnd(s, j, lit)
             m == OptAt(s, k, ")")
         IN  IF k > 0 /\ m <= Len(s) /\ s[m] = "]"
             THEN [ok |-> TRUE, end |-> m + 1, digits |-> lit]
             ELSE NoMatch

\* re.findall(r'\[\(?(\d+)\)?\]', s): the groups of the non-overlapping
\* matches, leftmost first
RECURSIVE FindAllFrom(_, _)
FindAllFrom(s, i) ==
    IF i > Len(s) THEN <<>>
    ELSE LET m == ScanMatchAt(s, i)
         IN  IF m.ok THEN <<m.digits>> \o FindAllFrom(s, m.end)
             ELSE FindAllFrom(s, i + 1)

FindAll(s) == FindAllFrom(s, 1)

\* re.sub(rf'\[\(?{old}\)?\]', f'[{new}]', s)
RECURSIVE ReSubFrom(_, _, _, _)
ReSubFrom(s, i, lit, repl) ==
    IF i > Len(s) THEN <<>>
    ELSE LET m == SubMatchAt(s, i, lit)
         IN  IF m.ok THEN repl \o ReSubFrom(s, m.end, lit, repl)
             ELSE <<s[i]>> \o ReSubFrom(s, i + 1, lit, repl)

ReSub(old, new, s) ==
    ReSubFrom(s, 1, IntToStr(old), <<"[">> \o IntToStr(new) \o <<"]">>)

Range(f) == {f[i] : i \in DOMAIN f}

Min(S) == CHOOSE x \in S : \A y \in S : x <= y

\* sorted(S) for a finite set of ints
RECURSIVE Sorted(_)
Sorted(S) == IF S = {} THEN <<>> ELSE <<Min(S)>> \o Sorted(S \ {Min(S)})

\* the distinct numbers in order of first appearance (sorted() left out)
RECURSIVE FirstSeen(_, _)
FirstSeen(ns, seen) ==
    IF ns = <<>> THEN <<>>
    ELSE IF ns[1] \in seen THEN FirstSeen(Tail(ns), seen)
         ELSE <<ns[1]>> \o FirstSeen(Tail(ns), seen \cup {ns[1]})

CitationsUnsorted(response) ==
    LET ds == FindAll(response)
    IN  FirstSeen([i \in 1..Len(ds) |-> StrToInt(ds[i])], {})

\* citations = sorted(set(map(int, re.findall(...))))
Citations(response) == Sorted({StrToInt(ds) : ds \in Range(FindAll(response))})

\* enumerate(citations) without its start argument: new numbers from 0
CitationMapFromZero(response) ==
    LET c == Citations(response)
    IN  [n \in 1..Len(c) |-> [old |-> c[n], new |-> n - 1]]

\* citation_map = {old: new for new, old in enumerate(citations, 1)}, a dict
\* in insertion order: the sequence of its items
CitationMap(response) ==
    LET c == Citations(response)
    IN  [n \in 1..Len(c) |-> [old |-> c[n], new |-> n]]

\* for old, new in citation_map.items(): response = re.sub(...)
RECURSIVE SubLoop(_, _, _)
SubLoop(cmap, n, response) ==
    IF n > Len(cmap) THEN response
    ELSE SubLoop(cmap, n + 1, ReSub(cmap[n].old, cmap[n].new, response))

\* renumber_citations(response) -> (response, citation_map)
renumber_citations(response) ==
    LET cmap == CitationMap(response)
    IN  [response |-> SubLoop(cmap, 1, response), citation_map |-> cmap]


\* ------------------------------------------------------------------------
\* generate_citation_links and save_markdown

\* A page text is a run-length string: a sequence of runs [ch, n], n >= 1
\* (n copies of ch).  "" is <<>>, the only falsy text.
\* search_dic is a dict in insertion order: the sequence of its items
Keys(search_dic) == [i \in 1..Len(search_dic) |-> search_dic[i].url]

HasKey(search_dic, u) == \E i \in 1..Len(search_dic) : search_dic[i].url = u

\* lst[i] read as if lists were 1-based
PyIndexOneBased(lst, i) ==
    IF 1 <= i /\ i <= Len(lst) THEN [err |-> FALSE, val |-> lst[i]]
    ELSE IF i = 0 /\ Len(lst) > 0 THEN [err |-> FALSE, val |-> lst[Len(lst)]]
         ELSE [err |-> TRUE, val |-> "IndexError"]

\* lst[i] of Python: a negative index counts from the end, IndexError outside
PyIndex(lst, i) ==
    IF 0 <= i /\ i < Len(lst) THEN [err |-> FALSE, val |-> lst[i + 1]]
    ELSE IF -Len(lst) <= i /\ i < 0
         THEN [err |-> FALSE, val |-> lst[Len(lst) + i + 1]]
         ELSE [err |-> TRUE, val |-> "IndexError"]

\* f"{new}. {url}"
CitedLink(new, url) == IntToStr(new) \o <<". ", url>>

\* "\n".join(lines)
RECURSIVE JoinLines(_)
JoinLines(lines) ==
    IF lines = <<>> THEN <<>>
    ELSE IF Len(lines) = 1 THEN lines[1]
         ELSE lines[1] \o <<"\n">> \o JoinLines(Tail(lines))

\* the loop of generate_citation_links from item n on, cited_links so far
RECURSIVE LinksLoop(_, _, _, _)
LinksLoop(cmap, n, search_dic, cited_links) ==
    IF n > Len(cmap) THEN [err |-> "", cited_links |-> cited_links]
    ELSE LET url == PyIndex(Keys(search_dic), cmap[n].old - 1)
         IN  IF url.err THEN [err |-> "IndexError", cited_links |-> cited_links]
             ELSE LinksLoop(cmap, n + 1, search_dic,
                            Append(cited_links, CitedLink(cmap[n].new, url.val)))

\* generate_citation_links(citation_map, search_dic): the block, or the
\* exception that leaves the function
generate_citation_links(citation_map, search_dic) ==
    LET r == LinksLoop(citation_map, 1, search_dic, <<>>)
    IN  [err |-> r.err,
         links_block |-> IF r.err = "" THEN JoinLines(r.cited_links) ELSE <<>>]

\* the document with its answer section put before its sources section
OutputContentAnswerFirst(q, links_block, response) ==
    <<"# ", q, "\n\n", "## Answer\n">> \o response
        \o <<"\n\n", "## Sources\n">> \o links_block

\* output_content of save_markdown
OutputContent(q, links_block, response) ==
    <<"# ", q, "\n\n", "## Sources\n">> \o links_block
        \o <<"\n\n", "## Answer\n">> \o response

\* save_markdown(query, response, search_dic) up to its return
save_markdown(q, response, search_dic) ==
    LET r == renumber_citations(response)
        l == generate_citation_links(r.citation_map, search_dic)
    IN  [err |-> l.err,
         response |-> r.response,
         citation_map |-> r.citation_map,
         links_block |-> l.links_block,
         output_content |-> IF l.err = "" THEN OutputContent(q, l.links_block, r.response)
                            ELSE <<>>]

\* ------------------------------------------------------------------------
\* Bounded inputs

MaxEntries == 3
MaxChunks == 3

UrlPool == <<"a.com", "b.com", "c.com", "d.com", "e.com", "f.com">>

\* a Python value that is a str or None, and what a future holds besides:
\* the exception of its task, or nothing yet
PyStr(t) == [kind |-> "str", s |-> t]
None == [kind |-> "None", s |-> <<>>]
Raised == [kind |-> "Raised", s |-> <<>>]
NoResult == [kind |-> "NoResult", s |-> <<>>]

\* page texts as fetch_webpage may return them: "", a short text, and one
\* longer than MAX_CONTENT
EmptyText == PyStr(<<>>)
ShortText == PyStr(<<[ch |-> "p", n |-> 1]>>)
LongText == PyStr(<<[ch |-> "p", n |-> MAX_CONTENT - 1], [ch |-> "q", n |-> 2]>>)
PageTexts == {EmptyText, ShortText, LongText}

Queries == {"q"}

\* the pieces answers are made of: plain text, brackets without a number, and
\* markers in every form the scan pattern accepts, among them out-of-range,
\* multi-digit and zero-padded numbers
Chunks ==
    { <<"X">>, <<"[", "(", ")", "]">>,
      <<"[", "0", "]">>, <<"[", "1", "]">>, <<"[", "2", "]">>, <<"[", "3", "]">>,
      <<"[", "0", "3", "]">>, <<"[", "1", "2", "]">>,
      <<"[", "(", "1", ")", "]">>, <<"[", "(", "3", "]">>, <<"[", "2", ")", "]">> }

RECURSIVE Flatten(_)
Flatten(cs) == IF cs = <<>> THEN <<>> ELSE cs[1] \o Flatten(Tail(cs))

\* the scenario answer "X[3] and Y[(1)]"
ScenarioAnswer == <<"X", "[", "3", "]", " and ", "Y", "[", "(", "1", ")", "]">>

ScenarioDic == << [url |-> "a.com", text |-> ShortText],
                  [url |-> "b.com", text |-> LongText],
                  [url |-> "c.com", text |-> ShortText] >>

Answers ==
    {Flatten(cs) : cs \in UNION {[1..n -> Chunks] : n \in 0..MaxChunks}}
        \cup {ScenarioAnswer}

Injective(f) == \A i, j \in DOMAIN f : f[i] = f[j] => i = j

\* the mappings google_parse_webpages can return: distinct URLs, every text
\* non-empty.  A URL is an opaque name to everything that follows, so the
\* mapping of n entries is taken with the first n names of the pool.
Mappings ==
    {[i \in 1..n |-> [url |-> UrlPool[i],
                      text |-> IF i = 2 THEN LongText ELSE ShortText]] :
        n \in 0..MaxEntries}


\* ------------------------------------------------------------------------
\* The program's state

VARIABLES
    pc,            \* where the main thread (lines 123-135) is
    query,         \* the query string
    search_dic,    \* the dict google_parse_webpages returned
    context_list,  \* build_prompt's context entries
    response,      \* the raw answer of llm_openai
    saved          \* what save_markdown computed

mainVars == <<pc, query, search_dic, context_list, response, saved>>

VARIABLES
    urls,          \* the URL list search() returned
    cpu_count,     \* os.cpu_count(): 0 stands for None
    max_workers,   \* os.cpu_count() or 1
    now,           \* time.time(), in seconds since google_parse_webpages began
    submitted,     \* how many fetch tasks executor.submit has queued
    task,          \* per submitted URL: the state of its future
    worker,        \* per pool thread: its task, its trace function, its socket wait
    ready,         \* futures as_completed has yet to yield, in yield order
    folded,        \* how many futures the dict comprehension has consumed
    returned_at,   \* when google_parse_webpages returned or raised
    error,         \* the exception that left google_parse_webpages, or ""
    ended          \* history: the tasks that returned a text, in the order
                   \* in which they ended

collVars == <<urls, cpu_count, max_workers, now, submitted, task, worker, ready,
              folded, returned_at, error, ended>>

citeVars == <<query, context_list, response, saved>>

vars == <<mainVars, collVars>>

\* ------------------------------------------------------------------------
\* google_parse_webpages and fetch_webpage

MaxTasks == 2
MaxCpu == 2
TimeStep == 13
MaxTime == 65

\* os.cpu_count(): None (0 here) or a positive number
CpuCounts == 0..MaxCpu

\* os.cpu_count() without the fallback
MaxWorkersNoFallback(cpu) == cpu

\* line 57: max_workers = os.cpu_count() or 1
MaxWorkersOf(cpu) == IF cpu = 0 THEN 1 ELSE cpu

\* the URL lists search() may return, up to NUM_SEARCH long in the program:
\* repeats allowed.  A URL is an opaque name, so a list names its URLs in
\* the order of the pool: the first is a.com, a new one is the next unused.
FetchUrls == {UrlPool[i] : i \in 1..2}

InPoolOrder(us) ==
    \A i \in 1..Len(us) :
        \E k \in 1..i :
            /\ us[i] = UrlPool[k]
            /\ \A j \in 1..(k - 1) : \E h \in 1..(i - 1) : us[h] = UrlPool[j]

UrlLists ==
    {us \in UNION {[1..n -> FetchUrls] : n \in 0..MaxTasks} : InPoolOrder(us)}

NoTrace == -1

IdleWorker == [task |-> 0, trace |-> NoTrace, op_start |-> 0]

\* a future: its state, its result, and two facts of its history: whether
\* the call took longer than the per-call timeout (slow) and whether it
\* ended after TOTAL_TIMEOUT seconds of google_parse_webpages (late)
NewTask == [st |-> "new", res |-> NoResult, slow |-> FALSE, late |-> FALSE]

Busy(w) == worker[w].task # 0

Phase(w) == task[worker[w].task].st

\* trace_function (lines 32-35): time.time() - start > TOTAL_TIMEOUT
TraceExpired(start) == now - start > TOTAL_TIMEOUT

\* one start time shared by all threads: the expiry of any of them
TraceFiresAny(w) ==
    \E v \in DOMAIN worker :
        worker[v].trace # NoTrace /\ TraceExpired(worker[v].trace)

\* the trace function installed in thread w raises at its next event
TraceFires(w) ==
    worker[w].trace # NoTrace /\ TraceExpired(worker[w].trace)

\* a store that loses what was written before it
DictSetLossy(dic, u, text) == <<[url |-> u, text |-> text]>>

\* dic[u] = text of a dict: a new key is appended, an old key keeps its place
DictSet(dic, u, text) ==
    IF HasKey(dic, u)
    THEN [i \in 1..Len(dic) |->
             IF dic[i].url = u THEN [url |-> u, text |-> text] ELSE dic[i]]
    ELSE Append(dic, [url |-> u, text |-> text])

\* the filter of the comprehension without its second conjunct
KeepsNone(u, res) == u # ""

\* `if (url := ...) and (page_text := ...)`: both truthy
Keeps(u, res) == u # "" /\ res # None /\ res # EmptyText

\* line 59: executor.submit(fetch_webpage, url, search_time_limit)
Submit ==
    /\ pc = "submit"
    /\ submitted < Len(urls)
    /\ submitted' = submitted + 1
    /\ task' = [task EXCEPT ![submitted + 1].st = "queued"]
    /\ UNCHANGED <<pc, search_dic, citeVars, urls, cpu_count, max_workers, now, worker,
                   ready, folded, returned_at, error, ended>>

Queued == {i \in 1..Len(urls) : task[i].st = "queued"}

\* a pool thread takes the oldest queued work item; fetch_webpage lines 40-41.
\* The threads are alike: the idle one of lowest number stands for any.
StartTask(w) ==
    /\ pc \in {"submit", "collect", "shutdown"}
    /\ ~Busy(w)
    /\ \A v \in 1..(w - 1) : Busy(v)
    /\ Queued # {}
    /\ LET i == Min(Queued)
       IN  /\ task' = [task EXCEPT ![i].st = "get"]
           /\ worker' = [worker EXCEPT ![w] =
                            [task |-> i, trace |-> now, op_start |-> now]]
    /\ UNCHANGED <<pc, search_dic, citeVars, urls, cpu_count, max_workers, now, submitted,
                   ready, folded, returned_at, error, ended>>

\* fetch_webpage returns or raises: the finally clause clears the trace
\* function, the future is set, a waiting as_completed is told
Finish(w, r) ==
    LET i == worker[w].task
    IN  /\ task' = [task EXCEPT ![i] =
                        [st |-> "done", res |-> r,
                         slow |-> now - worker[w].trace > SEARCH_TIME_LIMIT,
                         late |-> now > TOTAL_TIMEOUT]]
        /\ worker' = [worker EXCEPT ![w] = IdleWorker]
        /\ ready' = IF pc = "collect" THEN Append(ready, i) ELSE ready
        /\ ended' = IF r.kind = "str" /\ r.s # <<>> THEN Append(ended, i) ELSE ended
        /\ UNCHANGED <<pc, search_dic, citeVars, urls, cpu_count, max_workers, now,
                       submitted, folded, returned_at, error>>

\* line 43: one blocking socket operation of requests.get returns in time
\* and the next one begins
SockOp(w) ==
    /\ Busy(w) /\ Phase(w) = "get"
    /\ ~TraceFires(w)
    /\ now > worker[w].op_start
    /\ worker' = [worker EXCEPT ![w].op_start = now]
    /\ UNCHANGED <<mainVars, urls, cpu_count, max_workers, now, submitted, task, ready,
                   folded, returned_at, error, ended>>

\* lines 43-44: the response is complete and its status is a success
GetOk(w) ==
    /\ Busy(w) /\ Phase(w) = "get"
    /\ ~TraceFires(w)
    /\ task' = [task EXCEPT ![worker[w].task].st = "parse"]
    /\ worker' = [worker EXCEPT ![w].op_start = 0]
    /\ UNCHANGED <<mainVars, urls, cpu_count, max_workers, now, submitted, ready, folded,
                   returned_at, error, ended>>

\* lines 43-44, 49-50: a RequestException (connection error, the socket
\* timeout of requests, a non-success status) is caught
GetFail(w) ==
    /\ Busy(w) /\ Phase(w) = "get"
    /\ Finish(w, None)

\* lines 45-48: the page is parsed and its paragraphs joined
ParseOk(w) ==
    /\ Busy(w) /\ Phase(w) = "parse"
    /\ ~TraceFires(w)
    /\ \E text \in PageTexts : Finish(w, text)

\* lines 45-47: the parser raises; no except clause of fetch_webpage matches
ParseError(w) ==
    /\ Busy(w) /\ Phase(w) = "parse"
    /\ ~TraceFires(w)
    /\ Finish(w, Raised)

\* lines 33-34, 49-50: the trace function raises TimeoutError, caught
Watchdog(w) ==
    /\ Busy(w) /\ Phase(w) \in {"get", "parse"}
    /\ TraceFires(w)
    /\ Finish(w, None)

\* time passes while some fetch is running (the steps of the main thread and
\* of the pool take no time); a thread whose trace function is due raises
\* before the clock moves again, and a blocking socket operation waits no
\* longer than the timeout handed to requests.get
Tick ==
    /\ pc \in {"submit", "collect", "shutdown"}
    /\ \E w \in 1..max_workers : Busy(w)
    /\ \A w \in 1..max_workers : ~TraceFires(w)
    /\ now + TimeStep <= MaxTime
    /\ \A w \in 1..max_workers :
           (Busy(w) /\ Phase(w) = "get")
               => (now + TimeStep) - worker[w].op_start <= SEARCH_TIME_LIMIT
    /\ now' = now + TimeStep
    /\ UNCHANGED <<mainVars, urls, cpu_count, max_workers, submitted, task, worker, ready,
                   folded, returned_at, error, ended>>

Done == {i \in 1..Len(urls) : task[i].st = "done"}

\* the orders in which a set can be listed
Orders(S) == {f \in [1..Cardinality(S) -> S] : Injective(f)}

\* line 60: as_completed(future_to_url) begins: the futures already done are
\* yielded first, in the iteration order of a set (any order); those that end
\* later are yielded as they end (Finish)
AsCompleted ==
    /\ pc = "submit"
    /\ submitted = Len(urls)
    /\ \E o \in Orders(Done) : ready' = o
    /\ pc' = "collect"
    /\ UNCHANGED <<search_dic, citeVars, urls, cpu_count, max_workers, now, submitted,
                   task, worker, folded, returned_at, error, ended>>

\* line 60: the comprehension takes the next future; future.result() raises
\* what the task raised
Fold ==
    /\ pc = "collect"
    /\ ready # <<>>
    /\ LET i == Head(ready)
           r == task[i].res
       IN  IF r = Raised
           THEN /\ pc' = "shutdown"
                /\ error' = "ParseError"
                /\ UNCHANGED search_dic
           ELSE /\ search_dic' = IF Keeps(urls[i], r)
                                 THEN DictSet(search_dic, urls[i], r)
                                 ELSE search_dic
                /\ UNCHANGED <<pc, error>>
    /\ ready' = Tail(ready)
    /\ folded' = folded + 1
    /\ UNCHANGED <<citeVars, urls, cpu_count, max_workers, now, submitted, task, worker,
                   returned_at, ended>>

\* line 60: every future was yielded; the with block ends and the dict is
\* returned
Return ==
    /\ pc = "collect"
    /\ folded = Len(urls)
    /\ pc' = "collected"
    /\ returned_at' = now
    /\ UNCHANGED <<search_dic, citeVars, urls, cpu_count, max_workers, now, submitted,
                   task, worker, ready, folded, error, ended>>

\* line 58: the with block is left by an exception: shutdown(wait=True)
\* waits for every submitted task, then the exception goes on
ShutdownRaise ==
    /\ pc = "shutdown"
    /\ Done = 1..Len(urls)
    /\ pc' = "raised"
    /\ returned_at' = now
    /\ UNCHANGED <<search_dic, citeVars, urls, cpu_count, max_workers, now, submitted,
                   task, worker, ready, folded, error, ended>>

\* save_markdown has not run
NotSaved == [err |-> "", response |-> <<>>, citation_map |-> <<>>,
             links_block |-> <<>>, output_content |-> <<>>]

\* line 125: google_parse_webpages(query) begins
Init ==
    /\ pc = "submit"
    /\ query \in Queries
    /\ search_dic = <<>>
    /\ context_list = <<>>
    /\ response = <<>>
    /\ saved = NotSaved
    /\ urls \in UrlLists
    /\ cpu_count \in CpuCounts
    /\ max_workers = MaxWorkersOf(cpu_count)
    /\ now = 0
    /\ submitted = 0
    /\ task = [i \in 1..Len(urls) |-> NewTask]
    /\ worker = [w \in 1..max_workers |-> IdleWorker]
    /\ ready = <<>>
    /\ folded = 0
    /\ returned_at = 0
    /\ error = ""
    /\ ended = <<>>

Next ==
    \/ Submit
    \/ AsCompleted
    \/ Fold
    \/ Return
    \/ ShutdownRaise
    \/ Tick
    \/ \E w \in 1..max_workers : StartTask(w)
    \/ \E w \in 1..max_workers : SockOp(w)
    \/ \E w \in 1..max_workers : GetOk(w)
    \/ \E w \in 1..max_workers : GetFail(w)
    \/ \E w \in 1..max_workers : ParseOk(w)
    \/ \E w \in 1..max_workers : ParseError(w)
    \/ \E w \in 1..max_workers : Watchdog(w)

Spec == Init /\ [][Next]_vars

\* ------------------------------------------------------------------------
\* The rest of the script (lines 126-128)

\* content[:max_content] of a run-length text
RECURSIVE Truncate(_, _)
Truncate(t, k) ==
    IF t = <<>> \/ k <= 0 THEN <<>>
    ELSE IF t[1].n <= k THEN <<t[1]>> \o Truncate(Tail(t), k - t[1].n)
         ELSE <<[ch |-> t[1].ch, n |-> k]>>

\* the context entries tagged with enumerate's own index i
ContextListFromZero(dic, max_content) ==
    [i \in 1..Len(dic) |->
        [index |-> i - 1, url |-> dic[i].url,
         content |-> Truncate(dic[i].text.s, max_content)]]

\* context_list of build_prompt: enumerate(search_dic.items()), index i+1
ContextList(dic, max_content) ==
    [i \in 1..Len(dic) |->
        [index |-> i, url |-> dic[i].url,
         content |-> Truncate(dic[i].text.s, max_content)]]

\* line 126: prompt = build_prompt(query, search_dic)
BuildPrompt ==
    /\ pc = "collected"
    /\ context_list' = ContextList(search_dic, MAX_CONTENT)
    /\ pc' = "prompted"
    /\ UNCHANGED <<query, search_dic, response, saved, collVars>>

\* line 127: response = llm_openai(prompt), any text the provider returns
LlmOpenai ==
    /\ pc = "prompted"
    /\ \E r \in Answers : response' = r
    /\ pc' = "answered"
    /\ UNCHANGED <<query, search_dic, context_list, saved, collVars>>

\* line 128: save_markdown(query, response, search_dic); an IndexError of
\* generate_citation_links leaves the script
SaveMarkdown ==
    /\ pc = "answered"
    /\ saved' = save_markdown(query, response, search_dic)
    /\ pc' = IF saved'.err = "" THEN "saved" ELSE "failed"
    /\ UNCHANGED <<query, search_dic, context_list, response, collVars>>

\* the pipeline after google_parse_webpages has returned
InitCite ==
    /\ pc = "collected"
    /\ query \in Queries
    /\ search_dic \in Mappings
    /\ context_list = <<>>
    /\ response = <<>>
    /\ saved = NotSaved
    /\ urls = Keys(search_dic)
    /\ cpu_count = 1
    /\ max_workers = MaxWorkersOf(cpu_count)
    /\ now = 0
    /\ submitted = Len(urls)
    /\ task = [i \in 1..Len(urls) |->
                  [st |-> "done", res |-> search_dic[i].text,
                   slow |-> FALSE, late |-> FALSE]]
    /\ worker = [w \in 1..max_workers |-> IdleWorker]
    /\ ready = <<>>
    /\ folded = Len(urls)
    /\ returned_at = 0
    /\ error = ""
    /\ ended = [i \in 1..Len(urls) |-> i]

NextCite == BuildPrompt \/ LlmOpenai \/ SaveMarkdown

SpecCite == InitCite /\ [][NextCite]_vars


\* ------------------------------------------------------------------------
\* What the claims speak of

\* the citation markers of a text: where each starts and ends, its digits
RECURSIVE MarkersFrom(_, _)
MarkersFrom(s, i) ==
    IF i > Len(s) THEN <<>>
    ELSE LET m == ScanMatchAt(s, i)
         IN  IF m.ok
             THEN <<[start |-> i, end |-> m.end, digits |-> m.digits]>>
                      \o MarkersFrom(s, m.end)
             ELSE MarkersFrom(s, i + 1)

Markers(s) == MarkersFrom(s, 1)

\* the numbers the markers of a text refer to
MarkerNumbers(s) == {StrToInt(m.digits) : m \in Range(Markers(s))}

\* every marker of the text is of the bare form [digits]
AllBare(s) == \A m \in Range(Markers(s)) : m.end - m.start = Len(m.digits) + 2

\* the lines of a block ("" has no line)
RECURSIVE SplitLines(_, _)
SplitLines(b, cur) ==
    IF b = <<>> THEN <<cur>>
    ELSE IF b[1] = "\n" THEN <<cur>> \o SplitLines(Tail(b), <<>>)
         ELSE SplitLines(Tail(b), Append(cur, b[1]))

Lines(b) == IF b = <<>> THEN <<>> ELSE SplitLines(b, <<>>)

\* the number a line "{n}. {url}" starts with
LineNumber(line) == StrToInt(SubSeq(line, 1, DigitsEnd(line, 1) - 1))

\* the n-th smallest element of a set of numbers
NthSmallest(S, n) == CHOOSE c \in S : Cardinality({d \in S : d <= c}) = n

Reconciled == pc \in {"saved", "failed"}

\* C1 (as claimed; the code violates it): whenever save_markdown completes,
\* the numbers cited in the final answer body and the line numbers of the
\* link block are both exactly 1..k, and every cited number has exactly one
\* line.
C1_BodyAndBlockNumberedAlike ==
    pc = "saved" =>
        LET body == MarkerNumbers(saved.response)
            lines == Lines(saved.links_block)
            k == Len(lines)
        IN  /\ body = 1..k
            /\ {LineNumber(lines[i]) : i \in 1..k} = 1..k
            /\ \A c \in body :
                   Cardinality({i \in 1..k : LineNumber(lines[i]) = c}) = 1

\* C2 (as claimed; the code violates it): a marker that refers to 0 or to a
\* number above len(search_dic) makes reconciliation end in a failure.
C2_OutOfRangeFails ==
    (Reconciled /\ \E n \in MarkerNumbers(response) :
                       n = 0 \/ n > Len(search_dic))
        => (pc = "failed" /\ saved.err # "")

\* C8: when every marker of the answer is within 1..len(search_dic),
\* reconciliation completes and the link block has one line "{n}. {url}" per
\* cited entry, n = 1..k, the n-th line carrying the URL at the position of
\* the n-th smallest cited number; no other line.
C8_LinkBlockListsCitedEntries ==
    (Reconciled /\ MarkerNumbers(response) \subseteq 1..Len(search_dic)) =>
        LET cited == MarkerNumbers(response)
            lines == Lines(saved.links_block)
        IN  /\ pc = "saved"
            /\ Len(lines) = Cardinality(cited)
            /\ \A n \in 1..Len(lines) :
                   lines[n] = IntToStr(n)
                                \o <<". ", search_dic[NthSmallest(cited, n)].url>>

\* C8's case: two of three entries cited, the first one not
C8_Witness ==
    /\ pc = "saved"
    /\ Len(search_dic) = 3
    /\ MarkerNumbers(response) = {2, 3}

InScenario ==
    pc = "saved" /\ search_dic = ScenarioDic /\ response = ScenarioAnswer

\* C9 (as claimed; refuted): the scenario yields "X[1] and Y[2]" and the
\* block "1. c.com\n2. a.com".
C9_ScenarioAsClaimed ==
    InScenario =>
        /\ saved.response = <<"X", "[", "1", "]", " and ", "Y", "[", "2", "]">>
        /\ saved.links_block = <<"1", ". ", "c.com", "\n", "2", ". ", "a.com">>

\* C9 (amended): with entries a.com, b.com, c.com and the answer
\* "X[3] and Y[(1)]" reconciliation yields "X[2] and Y[1]" and the block
\* "1. a.com\n2. c.com": new numbers follow ascending original numbers.
C9_ScenarioAscending ==
    InScenario =>
        /\ saved.response = <<"X", "[", "2", "]", " and ", "Y", "[", "1", "]">>
        /\ saved.links_block = <<"1", ". ", "a.com", "\n", "2", ". ", "c.com">>
        /\ saved.citation_map = <<[old |-> 1, new |-> 1], [old |-> 3, new |-> 2]>>

C9_Witness == InScenario /\ saved.err = ""

\* the markers of the text refer to exactly 1..k for some k
Contiguous(s) ==
    MarkerNumbers(s) = 1..Cardinality(MarkerNumbers(s))

IdentityMap(k) == [n \in 1..k |-> [old |-> n, new |-> n]]

\* C10 (as claimed; refuted by "[(1)]"): on every text whose markers are
\* exactly 1..k renumber_citations returns the identical text and the
\* identity map.
C10_IdempotentOnContiguous ==
    (Reconciled /\ Contiguous(response)) =>
        /\ saved.response = response
        /\ saved.citation_map = IdentityMap(Cardinality(MarkerNumbers(response)))

\* C10 (amended): on every text whose markers are all of the bare form [n]
\* and refer to exactly 1..k, renumber_citations returns the identical text
\* and the identity map.
C10_IdempotentOnBareContiguous ==
    (Reconciled /\ Contiguous(response) /\ AllBare(response)) =>
        /\ saved.response = response
        /\ saved.citation_map = IdentityMap(Cardinality(MarkerNumbers(response)))

C10_Witness ==
    /\ Reconciled
    /\ AllBare(response)
    /\ MarkerNumbers(response) = {1, 2}
    /\ saved.response = response


\* ------------------------------------------------------------------------
\* Claims about the collector

CollectEnded == pc \in {"collected", "raised"}

\* the scheduling slack granted to the deadline: one step of the clock
Slack == TimeStep

\* C3 (as claimed; the code violates it): google_parse_webpages ends no
\* later than TOTAL_TIMEOUT plus the slack after it began.
C3_ReturnsWithinGlobalDeadline ==
    CollectEnded => returned_at <= TOTAL_TIMEOUT + Slack

\* C4 (as claimed; the code violates it): no entry of the returned mapping
\* comes from a task that completed after the global deadline; so when every
\* task completes after it, the mapping is empty.
C4_LateResultsDiscarded ==
    pc = "collected" =>
        \A n \in 1..Len(search_dic) :
            \E i \in 1..Len(urls) :
                /\ urls[i] = search_dic[n].url
                /\ task[i].res = search_dic[n].text
                /\ ~task[i].late

\* C5 (as claimed; the code violates it): a fetch_webpage call that takes
\* longer than the per-call timeout it was given returns (url, None).
C5_PerCallTimeoutEnforced ==
    \A i \in 1..Len(urls) :
        (task[i].st = "done" /\ task[i].slow) => task[i].res = None

\* C6 (as claimed; the code violates it): no failure of a fetch task leaves
\* google_parse_webpages as an exception.
C6_NoFetchFailurePropagates ==
    pc # "raised" /\ (CollectEnded => error = "")

\* C7: every entry of the mapping being returned has a present, non-empty
\* text, and it is the text some successful fetch of that URL returned.
C7_EntriesHaveText ==
    \A n \in 1..Len(search_dic) :
        /\ search_dic[n].text.kind = "str"
        /\ search_dic[n].text.s # <<>>
        /\ \E i \in 1..Len(urls) :
               /\ urls[i] = search_dic[n].url
               /\ task[i].st = "done"
               /\ task[i].res = search_dic[n].text

\* C7's case: the call returned a mapping with an entry while one fetch
\* ended without text and another with an empty text
C7_Witness ==
    /\ pc = "collected"
    /\ Len(search_dic) >= 1
    /\ \E i \in 1..Len(urls) : task[i].res \in {None, EmptyText}


\* task i returned a text the comprehension keeps
Succeeded(i) ==
    task[i].st = "done" /\ task[i].res.kind = "str" /\ task[i].res.s # <<>>

\* task i ended before task j
EndedBefore(i, j) ==
    \E a, b \in 1..Len(ended) : a < b /\ ended[a] = i /\ ended[b] = j

\* the position of key u in the mapping
PosOf(dic, u) == CHOOSE n \in 1..Len(dic) : dic[n].url = u

\* C11 (as claimed; the code violates it): when the successful fetch of URL A
\* ended before the successful fetch of another URL B, A precedes B in the
\* returned mapping.
C11_MappingInCompletionOrder ==
    pc = "collected" =>
        \A i, j \in 1..Len(urls) :
            (Succeeded(i) /\ Succeeded(j) /\ urls[i] # urls[j] /\ EndedBefore(i, j))
                => PosOf(search_dic, urls[i]) < PosOf(search_dic, urls[j])


RECURSIVE TextLen(_)
TextLen(t) == IF t = <<>> THEN 0 ELSE t[1].n + TextLen(Tail(t))

RECURSIVE CharAt(_, _)
CharAt(t, k) == IF k <= t[1].n THEN t[1].ch ELSE CharAt(Tail(t), k - t[1].n)

Prompted == pc \in {"prompted", "answered", "saved", "failed"}

Running == {i \in 1..Len(urls) : task[i].st \in {"get", "parse"}}

\* C14: max_workers is the number of processing units, 1 when that is
\* unknown, so at least 1; there is one task per URL of the list, all of them
\* submitted once submission is over, each running task is run by one pool
\* thread, and no more than max_workers tasks run at any moment.
C14_OneTaskPerUrlBoundedPool ==
    /\ max_workers = (IF cpu_count = 0 THEN 1 ELSE cpu_count)
    /\ max_workers >= 1
    /\ DOMAIN task = 1..Len(urls)
    /\ {i \in 1..Len(urls) : task[i].st # "new"} = 1..submitted
    /\ pc # "submit" => submitted = Len(urls)
    /\ \A i \in Running :
           Cardinality({w \in 1..max_workers : worker[w].task = i}) = 1
    /\ Cardinality(Running) <= max_workers

\* C14's case: every pool thread is running a task and another task waits
C14_Witness ==
    /\ Queued # {}
    /\ Cardinality(Running) = max_workers
    /\ \A w \in 1..max_workers : Busy(w)


\* C15: the mapping changes only in a step of the comprehension in the main
\* thread, which consumes one yielded future and writes one whole item (the
\* URL of that future with its result), never in a step of a pool thread; no
\* future is yielded twice; and every task that succeeded has its URL among
\* the keys of the mapping that is returned.
C15_SingleWriter ==
    [][ /\ search_dic' # search_dic =>
               /\ pc = "collect" /\ ready # <<>>
               /\ folded' = folded + 1
               /\ ready' = Tail(ready)
               /\ task' = task /\ worker' = worker
               /\ Len(search_dic') <= Len(search_dic) + 1
               /\ \E n \in 1..Len(search_dic') :
                      /\ search_dic'[n] = [url |-> urls[Head(ready)],
                                           text |-> task[Head(ready)].res]
                      /\ \A k \in 1..Len(search_dic) :
                             search_dic[k].url # urls[Head(ready)]
                                 => search_dic'[k] = search_dic[k]
        /\ Injective(ready')
        /\ folded' + Len(ready') <= Cardinality(Done')
        /\ pc' = "collected" =>
               \A i \in 1..Len(urls) :
                   Succeeded(i)' => HasKey(search_dic', urls[i])
      ]_vars

\* C15's case: two tasks succeeded and the mapping returned has both URLs
C15_Witness ==
    /\ pc = "collected"
    /\ Len(search_dic) = 2
    /\ \A i \in 1..Len(urls) : Succeeded(i)


\* the tasks that fetched URL u and returned a text the comprehension keeps
SucceededFor(u) == {i \in 1..Len(urls) : urls[i] = u /\ Succeeded(i)}

\* of the successful fetches of u, the one that ended last
LastEnded(u) ==
    CHOOSE i \in SucceededFor(u) :
        \A j \in SucceededFor(u) \ {i} : EndedBefore(j, i)

\* C16 (as claimed; the code violates its second part): the keys of the
\* returned mapping are unique, a URL of which some fetch succeeded is a key
\* whatever its other fetches did, and its text is the text of the successful
\* fetch of that URL that completed last.
C16_DuplicateUrlLastCompletedWins ==
    pc = "collected" =>
        /\ \A m, n \in 1..Len(search_dic) :
               search_dic[m].url = search_dic[n].url => m = n
        /\ \A u \in Range(urls) :
               SucceededFor(u) # {} =>
                   /\ HasKey(search_dic, u)
                   /\ search_dic[PosOf(search_dic, u)].text = task[LastEnded(u)].res


\* the item of the citation map whose pattern matches at position i, if any
\* (two different numbers never match at the same position)
ItemsAt(cmap, s, i) ==
    {n \in 1..Len(cmap) : SubMatchAt(s, i, IntToStr(cmap[n].old)).ok}

\* one pass over the text that replaces every marker through the whole
\* citation map; what it has written is not read again
RECURSIVE SimultaneousFrom(_, _, _)
SimultaneousFrom(cmap, s, i) ==
    IF i > Len(s) THEN <<>>
    ELSE IF ItemsAt(cmap, s, i) = {} THEN <<s[i]>> \o SimultaneousFrom(cmap, s, i + 1)
    ELSE LET n == CHOOSE n \in ItemsAt(cmap, s, i) : TRUE
             m == SubMatchAt(s, i, IntToStr(cmap[n].old))
         IN  <<"[">> \o IntToStr(cmap[n].new) \o <<"]">>
                 \o SimultaneousFrom(cmap, s, m.end)

Simultaneous(cmap, s) == SimultaneousFrom(cmap, s, 1)

\* C17 (as claimed; the code violates it): the text the substitution loop
\* leaves, one pass per original number, is the text of one simultaneous
\* replacement of all markers through the citation map.
C17_SequentialIsSimultaneous ==
    Reconciled =>
        saved.response = Simultaneous(saved.citation_map, response)


\* C18 (as claimed; the code violates it): every marker the scan counts is
\* matched, over its whole length, by the substitution pattern of its integer
\* value, and every marker of the text the loop leaves is the bare numeral
\* of a new number of the citation map.
C18_CountedMarkersRewritten ==
    Reconciled =>
        /\ \A m \in Range(Markers(response)) :
               LET p == SubMatchAt(response, m.start, IntToStr(StrToInt(m.digits)))
               IN  p.ok /\ p.end = m.end
        /\ \A m \in Range(Markers(saved.response)) :
               /\ m.end - m.start = Len(m.digits) + 2
               /\ \E n \in 1..Len(saved.citation_map) :
                      m.digits = IntToStr(saved.citation_map[n].new)


\* C19: a thread that runs no task has no trace function; the start time of
\* a trace function is the time at which its task began to run and stays
\* that while the task runs; a step that ends one task leaves the other
\* threads and their tasks as they are; and past the request a task is
\* cut short (ends without text) only when its own start time has expired.
C19_WatchdogLocalToTask ==
    [][ \A w \in 1..max_workers :
            /\ ~Busy(w) => worker[w].trace = NoTrace
            /\ ~Busy(w)' => worker'[w].trace = NoTrace
            /\ (~Busy(w) /\ Busy(w)') => worker'[w].trace = now
            /\ (Busy(w) /\ Busy(w)') =>
                   /\ worker'[w].task = worker[w].task
                   /\ worker'[w].trace = worker[w].trace
            /\ (Busy(w) /\ ~Busy(w)') =>
                   /\ \A v \in 1..max_workers \ {w} : worker'[v] = worker[v]
                   /\ \A i \in 1..Len(urls) \ {worker[w].task} : task'[i] = task[i]
                   /\ (Phase(w) = "parse" /\ task'[worker[w].task].res = None)
                          => TraceExpired(worker[w].trace)
      ]_vars

\* C19's case: a task was cut short after TOTAL_TIMEOUT while another thread,
\* started later, is still parsing with its own start time not expired
C19_Witness ==
    /\ \E i \in 1..Len(urls) :
           task[i].st = "done" /\ task[i].res = None /\ task[i].late
    /\ \E v \in 1..max_workers :
           /\ Busy(v) /\ Phase(v) = "parse"
           /\ worker[v].trace > 0
           /\ ~TraceExpired(worker[v].trace)

=============================================================================
